---- MODULE Spec2Model ----
(***************************************************************************)
(* Model of the saphyr YAML loader (src/src/loader.rs): the event-driven   *)
(* stack machine YamlLoader (on_event / insert_new_node), the scalar       *)
(* resolution done for Event::Scalar, and the driver load_from_parser.     *)
(***************************************************************************)
EXTENDS Integers, Sequences, FiniteSets, TLC

(***************************************************************************)
(* Bounds of the model.                                                    *)
(***************************************************************************)
\* node events (Scalar, Alias, SequenceStart, MappingStart) per stream
MaxNodes == 4
\* documents per stream
MaxDocs == 2
\* nesting depth of open containers
MaxDepth == 2

(***************************************************************************)
(* The Yaml value model (crate::Yaml).  A node is a record with one field  *)
(* per payload kind so that any two nodes can be compared:                 *)
(*   t  the variant                                                        *)
(*   b  the payload of Boolean                                             *)
(*   i  the payload of Integer                                             *)
(*   s  the text of Real and String, a sequence of characters              *)
(*   c  the elements of an Array, or the entries [key, val] of a Hash in   *)
(*      insertion order                                                    *)
(***************************************************************************)
Mk(t, b, i, s, c) == [t |-> t, b |-> b, i |-> i, s |-> s, c |-> c]

BadValue == Mk("BadValue", FALSE, 0, <<>>, <<>>)
Null == Mk("Null", FALSE, 0, <<>>, <<>>)
Boolean(x) == Mk("Boolean", x, 0, <<>>, <<>>)
Integer(x) == Mk("Integer", FALSE, x, <<>>, <<>>)
Real(v) == Mk("Real", FALSE, 0, v, <<>>)
String(v) == Mk("String", FALSE, 0, v, <<>>)
Array(elems) == Mk("Array", FALSE, 0, <<>>, elems)
Hash(entries) == Mk("Hash", FALSE, 0, <<>>, entries)

is_array(n) == n.t = "Array"
is_hash(n) == n.t = "Hash"
is_badvalue(n) == n.t = "BadValue"

(***************************************************************************)
(* Text is a sequence of one-character strings.                            *)
(***************************************************************************)
Digits == {"0", "1", "2", "3", "4", "5", "6", "7", "8", "9"}

DigitVal(ch) ==
    CASE ch = "0" -> 0 [] ch = "1" -> 1 [] ch = "2" -> 2 [] ch = "3" -> 3
      [] ch = "4" -> 4 [] ch = "5" -> 5 [] ch = "6" -> 6 [] ch = "7" -> 7
      [] ch = "8" -> 8 [] ch = "9" -> 9

Lower(ch) ==
    CASE ch = "I" -> "i" [] ch = "N" -> "n" [] ch = "F" -> "f"
      [] ch = "A" -> "a" [] ch = "T" -> "t" [] ch = "Y" -> "y"
      [] OTHER -> ch

LowerAll(v) == [k \in 1..Len(v) |-> Lower(v[k])]

AllDigits(v) == \A k \in 1..Len(v) : v[k] \in Digits

\* number of leading digits of v
RECURSIVE DigitPrefix(_)
DigitPrefix(v) ==
    IF v # <<>> /\ Head(v) \in Digits THEN 1 + DigitPrefix(Tail(v)) ELSE 0

Drop(v, n) == SubSeq(v, n + 1, Len(v))

RECURSIVE DecimalValue(_, _)
DecimalValue(v, acc) ==
    IF v = <<>> THEN acc ELSE DecimalValue(Tail(v), 10 * acc + DigitVal(Head(v)))

\* str::parse::<bool>: exactly "true" or "false"
ParseBool(v) ==
    IF v = <<"t", "r", "u", "e">> THEN [ok |-> TRUE, val |-> TRUE]
    ELSE IF v = <<"f", "a", "l", "s", "e">> THEN [ok |-> TRUE, val |-> FALSE]
    ELSE [ok |-> FALSE, val |-> FALSE]

\* str::parse::<i64>: an optional sign, then one or more decimal digits.
\* (The texts of the model are short, so the overflow error cannot arise.)
ParseI64(v) ==
    LET neg == v # <<>> /\ Head(v) = "-"
        body == IF v # <<>> /\ Head(v) \in {"+", "-"} THEN Tail(v) ELSE v
    IN  IF body # <<>> /\ AllDigits(body)
        THEN [ok |-> TRUE,
              val |-> IF neg THEN 0 - DecimalValue(body, 0) ELSE DecimalValue(body, 0)]
        ELSE [ok |-> FALSE, val |-> 0]

\* str::parse::<f64>: an optional sign, then "inf", "infinity" or "nan" in
\* any letter case, or a decimal number digits [. digits] [e [sign] digits]
\* with at least one digit before the exponent.
ParseStdF64(v) ==
    LET body == IF v # <<>> /\ Head(v) \in {"+", "-"} THEN Tail(v) ELSE v
        n1 == DigitPrefix(body)
        r1 == Drop(body, n1)
        dot == r1 # <<>> /\ Head(r1) = "."
        n2 == IF dot THEN DigitPrefix(Tail(r1)) ELSE 0
        r2 == IF dot THEN Drop(Tail(r1), n2) ELSE r1
        ex == IF r2 # <<>> /\ Head(r2) \in {"e", "E"} THEN Tail(r2) ELSE <<>>
        exd == IF ex # <<>> /\ Head(ex) \in {"+", "-"} THEN Tail(ex) ELSE ex
    IN  \/ LowerAll(body) \in {<<"i", "n", "f">>, <<"n", "a", "n">>,
                               <<"i", "n", "f", "i", "n", "i", "t", "y">>}
        \/ /\ n1 + n2 > 0
           /\ \/ r2 = <<>>
              \/ /\ Head(r2) \in {"e", "E"}
                 /\ exd # <<>>
                 /\ AllDigits(exd)

\* parse_f64: TRUE when the code returns Some(_)
parse_f64(v) ==
    IF v \in {<<".", "i", "n", "f">>, <<".", "I", "n", "f">>, <<".", "I", "N", "F">>,
              <<"+", ".", "i", "n", "f">>, <<"+", ".", "I", "n", "f">>,
              <<"+", ".", "I", "N", "F">>}
    THEN TRUE
    ELSE IF v \in {<<"-", ".", "i", "n", "f">>, <<"-", ".", "I", "n", "f">>,
                   <<"-", ".", "I", "N", "F">>}
    THEN TRUE
    ELSE IF v \in {<<".", "n", "a", "n">>, <<"N", "a", "N">>, <<".", "N", "A", "N">>}
    THEN TRUE
    ELSE ParseStdF64(v)

\* Yaml::from_str: implicit core-schema inference over a plain untagged text
from_str(v) ==
    IF ParseBool(v).ok THEN Boolean(ParseBool(v).val)
    ELSE IF ParseI64(v).ok THEN Integer(ParseI64(v).val)
    ELSE IF parse_f64(v) THEN Real(v)
    ELSE IF v \in {<<"~">>, <<"n", "u", "l", "l">>} THEN Null
    ELSE String(v)

(***************************************************************************)
(* Tags and styles of a Scalar event.                                      *)
(***************************************************************************)
NoTag == [some |-> FALSE, handle |-> "", suffix |-> ""]
Tag(handle, suffix) == [some |-> TRUE, handle |-> handle, suffix |-> suffix]
CoreHandle == "tag:yaml.org,2002:"

Styles == {"Plain", "SingleQuoted", "DoubleQuoted", "Literal", "Folded"}

\* scalar resolution that looks at the tag before the style
ResolveScalar_TagFirst(v, style, tag) ==
    IF tag.some
    THEN IF tag.handle = CoreHandle
         THEN CASE tag.suffix = "bool" ->
                       IF ParseBool(v).ok THEN Boolean(ParseBool(v).val) ELSE BadValue
                [] tag.suffix = "int" ->
                       IF ParseI64(v).ok THEN Integer(ParseI64(v).val) ELSE BadValue
                [] tag.suffix = "float" ->
                       IF parse_f64(v) THEN Real(v) ELSE BadValue
                [] tag.suffix = "null" ->
                       IF v \in {<<"~">>, <<"n", "u", "l", "l">>} THEN Null ELSE BadValue
                [] OTHER -> String(v)
         ELSE String(v)
    ELSE IF style # "Plain" THEN String(v)
    ELSE from_str(v)

\* scalar resolution that applies the core-schema rules whatever the handle
ResolveScalar_AnyHandle(v, style, tag) ==
    IF style # "Plain" THEN String(v)
    ELSE IF tag.some
    THEN CASE tag.suffix = "bool" ->
                  IF ParseBool(v).ok THEN Boolean(ParseBool(v).val) ELSE BadValue
           [] tag.suffix = "int" ->
                  IF ParseI64(v).ok THEN Integer(ParseI64(v).val) ELSE BadValue
           [] tag.suffix = "float" ->
                  IF parse_f64(v) THEN Real(v) ELSE BadValue
           [] tag.suffix = "null" ->
                  IF v \in {<<"~">>, <<"n", "u", "l", "l">>} THEN Null ELSE BadValue
           [] OTHER -> String(v)
    ELSE from_str(v)

\* the node an Event::Scalar(v, style, _, tag) resolves to
ResolveScalar(v, style, tag) ==
    IF style # "Plain" THEN String(v)
    ELSE IF tag.some
    THEN IF tag.handle = CoreHandle
         THEN CASE tag.suffix = "bool" ->
                       IF ParseBool(v).ok THEN Boolean(ParseBool(v).val) ELSE BadValue
                [] tag.suffix = "int" ->
                       IF ParseI64(v).ok THEN Integer(ParseI64(v).val) ELSE BadValue
                [] tag.suffix = "float" ->
                       IF parse_f64(v) THEN Real(v) ELSE BadValue
                [] tag.suffix = "null" ->
                       IF v \in {<<"~">>, <<"n", "u", "l", "l">>} THEN Null ELSE BadValue
                [] OTHER -> String(v)
         ELSE String(v)
    ELSE from_str(v)

(***************************************************************************)
(* LinkedHashMap::insert on the entries of a Hash: a new key is appended;  *)
(* an equal key already present keeps its key, takes the new value and is  *)
(* moved to the back of the insertion order.                               *)
(***************************************************************************)
Without(entries, k) == SelectSeq(entries, LAMBDA en : en.key # k)

\* LinkedHashMap::insert that keeps the existing entry of an equal key
hash_insert_KeepFirst(entries, k, val) ==
    IF \E j \in 1..Len(entries) : entries[j].key = k THEN entries
    ELSE Append(entries, [key |-> k, val |-> val])

hash_insert(entries, k, val) ==
    Append(Without(entries, k), [key |-> k, val |-> val])

(***************************************************************************)
(* State.                                                                  *)
(*   docs, doc_stack, key_stack, anchor_map   the fields of YamlLoader     *)
(*   result   what load_from_parser has returned ("Running" before it      *)
(*            returns; "Panic" when a handler panicked)                    *)
(*   parser   the upstream parser: where it is in the stream grammar       *)
(*   trace    the events delivered to on_event of the live loader so far   *)
(***************************************************************************)
VARIABLES docs, doc_stack, key_stack, anchor_map, result, parser, trace

loader == <<docs, doc_stack, key_stack, anchor_map>>
vars == <<docs, doc_stack, key_stack, anchor_map, result, parser, trace>>

Ev(e, v, style, aid, tag) == [e |-> e, v |-> v, style |-> style, aid |-> aid, tag |-> tag]
BareEv(e) == Ev(e, <<>>, "", 0, NoTag)
StartEv(e, aid) == Ev(e, <<>>, "", aid, NoTag)

NodeEvents == {"Scalar", "Alias", "SequenceStart", "MappingStart"}
CountOf(tr, kinds) == Cardinality({j \in 1..Len(tr) : tr[j].e \in kinds})

Top(st) == st[Len(st)]
Pop(st) == SubSeq(st, 1, Len(st) - 1)
SetTop(st, x) == [st EXCEPT ![Len(st)] = x]

Entry(node, aid) == [node |-> node, aid |-> aid]

Running == [kind |-> "Running", docs |-> <<>>, lost |-> 0]

\* YamlLoader::default
Init ==
    /\ docs = <<>>
    /\ doc_stack = <<>>
    /\ key_stack = <<>>
    /\ anchor_map = <<>>
    /\ result = Running
    /\ parser = [phase |-> "new", open |-> <<>>, root |-> FALSE]
    /\ trace = <<>>

(***************************************************************************)
(* insert_new_node, as a function of the loader's stacks and anchor map.   *)
(* The outcome records the new doc_stack, key_stack and anchor_map and     *)
(* whether an unwrap panicked.                                             *)
(***************************************************************************)
Outcome(ds, ks, am, panic) == [ds |-> ds, ks |-> ks, am |-> am, panic |-> panic]

register_anchor(am, node, aid) ==
    IF aid > 0 THEN (aid :> node) @@ am ELSE am

\* insert_into_hash without the test of the key slot: every node is inserted
\* under whatever the slot holds
insert_into_hash_NoSlotTest(ds, ks, am, node) ==
    IF ks = <<>> THEN Outcome(ds, ks, am, TRUE)
    ELSE Outcome(SetTop(ds, Entry(Hash(hash_insert(Top(ds).node.c, Top(ks), node)),
                                  Top(ds).aid)),
                 SetTop(ks, BadValue), am, FALSE)

\* insert_into_hash that leaves the pending key in its slot after the insert
insert_into_hash_KeepKey(ds, ks, am, node) ==
    IF ks = <<>> THEN Outcome(ds, ks, am, TRUE)
    ELSE IF is_badvalue(Top(ks))
    THEN Outcome(ds, SetTop(ks, node), am, FALSE)
    ELSE Outcome(SetTop(ds, Entry(Hash(hash_insert(Top(ds).node.c, Top(ks), node)),
                                  Top(ds).aid)),
                 ks, am, FALSE)

\* insert_into_hash that stores a key in the first slot of key_stack
insert_into_hash_FirstSlot(ds, ks, am, node) ==
    IF ks = <<>> THEN Outcome(ds, ks, am, TRUE)
    ELSE IF is_badvalue(Top(ks))
    THEN Outcome(ds, [ks EXCEPT ![1] = node], am, FALSE)
    ELSE Outcome(SetTop(ds, Entry(Hash(hash_insert(Top(ds).node.c, Top(ks), node)),
                                  Top(ds).aid)),
                 SetTop(ks, BadValue), am, FALSE)

insert_into_hash(ds, ks, am, node) ==
    IF ks = <<>> THEN Outcome(ds, ks, am, TRUE)
    ELSE IF is_badvalue(Top(ks))
    THEN Outcome(ds, SetTop(ks, node), am, FALSE)
    ELSE Outcome(SetTop(ds, Entry(Hash(hash_insert(Top(ds).node.c, Top(ks), node)),
                                  Top(ds).aid)),
                 SetTop(ks, BadValue), am, FALSE)

\* insert_new_node that overwrites the elements of an Array parent
insert_new_node_Overwrite(ds, ks, am, node, aid) ==
    LET am1 == register_anchor(am, node, aid)
    IN  IF ds = <<>> THEN Outcome(<<Entry(node, aid)>>, ks, am1, FALSE)
        ELSE IF is_array(Top(ds).node)
        THEN Outcome(SetTop(ds, Entry(Array(<<node>>), Top(ds).aid)), ks, am1, FALSE)
        ELSE IF is_hash(Top(ds).node)
        THEN insert_into_hash(ds, ks, am1, node)
        ELSE Outcome(ds, ks, am1, FALSE)

\* insert_new_node that pairs a document root with anchor id 0
insert_new_node_RootZero(ds, ks, am, node, aid) ==
    LET am1 == register_anchor(am, node, aid)
    IN  IF ds = <<>> THEN Outcome(<<Entry(node, 0)>>, ks, am1, FALSE)
        ELSE IF is_array(Top(ds).node)
        THEN Outcome(SetTop(ds, Entry(Array(Append(Top(ds).node.c, node)), Top(ds).aid)),
                     ks, am1, FALSE)
        ELSE IF is_hash(Top(ds).node)
        THEN insert_into_hash(ds, ks, am1, node)
        ELSE Outcome(ds, ks, am1, FALSE)

insert_new_node(ds, ks, am, node, aid) ==
    LET am1 == register_anchor(am, node, aid)
    IN  IF ds = <<>> THEN Outcome(<<Entry(node, aid)>>, ks, am1, FALSE)
        ELSE IF is_array(Top(ds).node)
        THEN Outcome(SetTop(ds, Entry(Array(Append(Top(ds).node.c, node)), Top(ds).aid)),
                     ks, am1, FALSE)
        ELSE IF is_hash(Top(ds).node)
        THEN insert_into_hash(ds, ks, am1, node)
        ELSE Outcome(ds, ks, am1, FALSE)

Apply(out) ==
    /\ doc_stack' = out.ds
    /\ key_stack' = out.ks
    /\ anchor_map' = out.am
    /\ result' = IF out.panic THEN [kind |-> "Panic", docs |-> <<>>, lost |-> 0] ELSE result

Panic ==
    /\ result' = [kind |-> "Panic", docs |-> <<>>, lost |-> 0]
    /\ UNCHANGED <<docs, doc_stack, key_stack, anchor_map>>

(***************************************************************************)
(* The upstream parser.  It delivers the events of a well-formed stream:   *)
(*   stream := StreamStart doc* StreamEnd                                  *)
(*   doc    := DocumentStart node? DocumentEnd                             *)
(*   node   := Scalar | Alias | SequenceStart node* SequenceEnd            *)
(*           | MappingStart (node node)* MappingEnd                        *)
(* parser.open lists the open containers, innermost last: "seq", or for a  *)
(* mapping "key" / "val", the role of its next child.                      *)
(***************************************************************************)
Live == result.kind = "Running" /\ parser.phase \in {"new", "stream", "doc"}

CanNode ==
    /\ Live
    /\ parser.phase = "doc"
    /\ parser.open = <<>> => ~parser.root

\* the stream has delivered fewer than n node events
Room(n) == CountOf(trace, NodeEvents) < n

Flip(role) == IF role = "key" THEN "val" ELSE IF role = "val" THEN "key" ELSE role

\* the parser's position once a complete node has been delivered below `open`
Completed(open) ==
    IF open = <<>> THEN [parser EXCEPT !.open = <<>>, !.root = TRUE]
    ELSE [parser EXCEPT !.open = SetTop(open, Flip(Top(open)))]

Deliver(ev) == trace' = Append(trace, ev)

(***************************************************************************)
(* on_event, one action per event.                                         *)
(***************************************************************************)
StreamStart ==
    /\ Live /\ parser.phase = "new"
    /\ parser' = [parser EXCEPT !.phase = "stream"]
    /\ Deliver(BareEv("StreamStart"))
    /\ UNCHANGED <<docs, doc_stack, key_stack, anchor_map, result>>

DocumentStart ==
    /\ Live /\ parser.phase = "stream"
    /\ CountOf(trace, {"DocumentStart"}) < MaxDocs
    /\ parser' = [phase |-> "doc", open |-> <<>>, root |-> FALSE]
    /\ Deliver(BareEv("DocumentStart"))
    /\ UNCHANGED <<docs, doc_stack, key_stack, anchor_map, result>>

StreamEnd ==
    /\ Live /\ parser.phase = "stream"
    /\ parser' = [parser EXCEPT !.phase = "end"]
    /\ Deliver(BareEv("StreamEnd"))
    /\ UNCHANGED <<docs, doc_stack, key_stack, anchor_map, result>>

\* DocumentEnd that appends nothing for a document without content
DocumentEnd_SkipEmpty ==
    /\ Live /\ parser.phase = "doc" /\ parser.open = <<>>
    /\ parser' = [parser EXCEPT !.phase = "stream"]
    /\ Deliver(BareEv("DocumentEnd"))
    /\ IF Len(doc_stack) = 0
       THEN UNCHANGED <<docs, doc_stack, key_stack, anchor_map, result>>
       ELSE IF Len(doc_stack) = 1
       THEN /\ docs' = Append(docs, Top(doc_stack).node)
            /\ doc_stack' = Pop(doc_stack)
            /\ UNCHANGED <<key_stack, anchor_map, result>>
       ELSE Panic

\* DocumentEnd with the root put in front of the earlier documents
DocumentEnd_Prepend ==
    /\ Live /\ parser.phase = "doc" /\ parser.open = <<>>
    /\ parser' = [parser EXCEPT !.phase = "stream"]
    /\ Deliver(BareEv("DocumentEnd"))
    /\ IF Len(doc_stack) = 0
       THEN /\ docs' = <<BadValue>> \o docs
            /\ UNCHANGED <<doc_stack, key_stack, anchor_map, result>>
       ELSE IF Len(doc_stack) = 1
       THEN /\ docs' = <<Top(doc_stack).node>> \o docs
            /\ doc_stack' = Pop(doc_stack)
            /\ UNCHANGED <<key_stack, anchor_map, result>>
       ELSE Panic

\* DocumentEnd that appends the root and leaves it on doc_stack
DocumentEnd_KeepRoot ==
    /\ Live /\ parser.phase = "doc" /\ parser.open = <<>>
    /\ parser' = [parser EXCEPT !.phase = "stream"]
    /\ Deliver(BareEv("DocumentEnd"))
    /\ IF Len(doc_stack) = 0
       THEN /\ docs' = Append(docs, BadValue)
            /\ UNCHANGED <<doc_stack, key_stack, anchor_map, result>>
       ELSE IF Len(doc_stack) = 1
       THEN /\ docs' = Append(docs, Top(doc_stack).node)
            /\ UNCHANGED <<doc_stack, key_stack, anchor_map, result>>
       ELSE Panic

\* DocumentEnd that starts the next document with an empty anchor table
DocumentEnd_ClearAnchors ==
    /\ Live /\ parser.phase = "doc" /\ parser.open = <<>>
    /\ parser' = [parser EXCEPT !.phase = "stream"]
    /\ Deliver(BareEv("DocumentEnd"))
    /\ IF Len(doc_stack) = 0
       THEN /\ docs' = Append(docs, BadValue)
            /\ anchor_map' = <<>>
            /\ UNCHANGED <<doc_stack, key_stack, result>>
       ELSE IF Len(doc_stack) = 1
       THEN /\ docs' = Append(docs, Top(doc_stack).node)
            /\ doc_stack' = Pop(doc_stack)
            /\ anchor_map' = <<>>
            /\ UNCHANGED <<key_stack, result>>
       ELSE Panic

DocumentEnd ==
    /\ Live /\ parser.phase = "doc" /\ parser.open = <<>>
    /\ parser' = [parser EXCEPT !.phase = "stream"]
    /\ Deliver(BareEv("DocumentEnd"))
    /\ IF Len(doc_stack) = 0
       THEN /\ docs' = Append(docs, BadValue)
            /\ UNCHANGED <<doc_stack, key_stack, anchor_map, result>>
       ELSE IF Len(doc_stack) = 1
       THEN /\ docs' = Append(docs, Top(doc_stack).node)
            /\ doc_stack' = Pop(doc_stack)
            /\ UNCHANGED <<key_stack, anchor_map, result>>
       ELSE Panic

\* SequenceStart that registers the anchor of the sequence as it opens
SequenceStart_RegisterAtStart(aid) ==
    /\ CanNode /\ Len(parser.open) < MaxDepth
    /\ parser' = [parser EXCEPT !.open = Append(parser.open, "seq")]
    /\ Deliver(StartEv("SequenceStart", aid))
    /\ doc_stack' = Append(doc_stack, Entry(Array(<<>>), aid))
    /\ anchor_map' = register_anchor(anchor_map, Array(<<>>), aid)
    /\ UNCHANGED <<docs, key_stack, result>>

SequenceStart(aid) ==
    /\ CanNode /\ Len(parser.open) < MaxDepth
    /\ parser' = [parser EXCEPT !.open = Append(parser.open, "seq")]
    /\ Deliver(StartEv("SequenceStart", aid))
    /\ doc_stack' = Append(doc_stack, Entry(Array(<<>>), aid))
    /\ UNCHANGED <<docs, key_stack, anchor_map, result>>

SequenceEnd ==
    /\ Live /\ parser.phase = "doc"
    /\ parser.open # <<>> /\ Top(parser.open) = "seq"
    /\ parser' = Completed(Pop(parser.open))
    /\ Deliver(BareEv("SequenceEnd"))
    /\ IF doc_stack = <<>> THEN Panic
       ELSE /\ Apply(insert_new_node(Pop(doc_stack), key_stack, anchor_map,
                                     Top(doc_stack).node, Top(doc_stack).aid))
            /\ UNCHANGED docs

\* MappingStart that pushes the Hash without its key_stack slot
MappingStart_NoSlot(aid) ==
    /\ CanNode /\ Len(parser.open) < MaxDepth
    /\ parser' = [parser EXCEPT !.open = Append(parser.open, "key")]
    /\ Deliver(StartEv("MappingStart", aid))
    /\ doc_stack' = Append(doc_stack, Entry(Hash(<<>>), aid))
    /\ UNCHANGED <<docs, key_stack, anchor_map, result>>

MappingStart(aid) ==
    /\ CanNode /\ Len(parser.open) < MaxDepth
    /\ parser' = [parser EXCEPT !.open = Append(parser.open, "key")]
    /\ Deliver(StartEv("MappingStart", aid))
    /\ doc_stack' = Append(doc_stack, Entry(Hash(<<>>), aid))
    /\ key_stack' = Append(key_stack, BadValue)
    /\ UNCHANGED <<docs, anchor_map, result>>

\* MappingEnd that leaves the mapping's slot on key_stack
MappingEnd_KeepSlot ==
    /\ Live /\ parser.phase = "doc"
    /\ parser.open # <<>> /\ Top(parser.open) = "key"
    /\ parser' = Completed(Pop(parser.open))
    /\ Deliver(BareEv("MappingEnd"))
    /\ IF key_stack = <<>> \/ doc_stack = <<>> THEN Panic
       ELSE /\ Apply(insert_new_node(Pop(doc_stack), key_stack, anchor_map,
                                     Top(doc_stack).node, Top(doc_stack).aid))
            /\ UNCHANGED docs

\* MappingEnd that inserts a key left pending in the slot, with a BadValue
\* value, before it closes the Hash
MappingEnd_FlushKey ==
    /\ Live /\ parser.phase = "doc"
    /\ parser.open # <<>> /\ Top(parser.open) = "key"
    /\ parser' = Completed(Pop(parser.open))
    /\ Deliver(BareEv("MappingEnd"))
    /\ IF key_stack = <<>> \/ doc_stack = <<>> THEN Panic
       ELSE LET h == Top(doc_stack).node
                k == Top(key_stack)
                closed == IF is_badvalue(k) THEN h
                          ELSE Hash(hash_insert(h.c, k, BadValue))
            IN  /\ Apply(insert_new_node(Pop(doc_stack), Pop(key_stack), anchor_map,
                                         closed, Top(doc_stack).aid))
                /\ UNCHANGED docs

MappingEnd ==
    /\ Live /\ parser.phase = "doc"
    /\ parser.open # <<>> /\ Top(parser.open) = "key"
    /\ parser' = Completed(Pop(parser.open))
    /\ Deliver(BareEv("MappingEnd"))
    /\ IF key_stack = <<>> \/ doc_stack = <<>> THEN Panic
       ELSE /\ Apply(insert_new_node(Pop(doc_stack), Pop(key_stack), anchor_map,
                                     Top(doc_stack).node, Top(doc_stack).aid))
            /\ UNCHANGED docs

Scalar(v, style, aid, tag) ==
    /\ CanNode
    /\ parser' = Completed(parser.open)
    /\ Deliver(Ev("Scalar", v, style, aid, tag))
    /\ Apply(insert_new_node(doc_stack, key_stack, anchor_map,
                             ResolveScalar(v, style, tag), aid))
    /\ UNCHANGED docs

\* alias lookup that never finds the anchor
alias_target_Miss(am, id) == BadValue

alias_target(am, id) == IF id \in DOMAIN am THEN am[id] ELSE BadValue

\* Alias that hands its own id to the insertion routine as an anchor id
Alias_Reanchor(id) ==
    /\ CanNode
    /\ parser' = Completed(parser.open)
    /\ Deliver(StartEv("Alias", id))
    /\ Apply(insert_new_node(doc_stack, key_stack, anchor_map,
                             alias_target(anchor_map, id), id))
    /\ UNCHANGED docs

Alias(id) ==
    /\ CanNode
    /\ parser' = Completed(parser.open)
    /\ Deliver(StartEv("Alias", id))
    /\ Apply(insert_new_node(doc_stack, key_stack, anchor_map,
                             alias_target(anchor_map, id), 0))
    /\ UNCHANGED docs

(***************************************************************************)
(* load_from_parser: `parser.load(&mut loader, true)?; Ok(loader.docs)`.   *)
(***************************************************************************)
\* ScanError with the documents completed so far returned as a success
ScanError_Partial ==
    /\ Live
    /\ parser' = [phase |-> "failed", open |-> <<>>, root |-> FALSE]
    /\ result' = [kind |-> "Ok", docs |-> docs, lost |-> 0]
    /\ docs' = <<>>
    /\ doc_stack' = <<>>
    /\ key_stack' = <<>>
    /\ anchor_map' = <<>>
    /\ trace' = <<>>

\* The parser reports a fatal scan error: `?` returns it at once, and the
\* local loader is dropped with whatever it had built.  result.lost keeps
\* the number of documents the dropped loader had completed.
ScanError ==
    /\ Live
    /\ parser' = [phase |-> "failed", open |-> <<>>, root |-> FALSE]
    /\ result' = [kind |-> "Err", docs |-> <<>>, lost |-> Len(docs)]
    /\ docs' = <<>>
    /\ doc_stack' = <<>>
    /\ key_stack' = <<>>
    /\ anchor_map' = <<>>
    /\ trace' = <<>>

\* the parser consumed the whole stream: the loader's docs are returned
Return ==
    /\ result.kind = "Running" /\ parser.phase = "end"
    /\ result' = [kind |-> "Ok", docs |-> docs, lost |-> 0]
    /\ UNCHANGED <<docs, doc_stack, key_stack, anchor_map, parser, trace>>

(***************************************************************************)
(* The loader specification.  The parser delivers unanchored containers,   *)
(* a scalar that resolves to a String (unanchored, and with anchor id 2),  *)
(* one that resolves to an Integer, one whose explicit core-schema tag     *)
(* does not match its text, and aliases to id 1, which no node carries.    *)
(***************************************************************************)
Sc(v, style, aid, tag) == [v |-> v, style |-> style, aid |-> aid, tag |-> tag]

ScalarInputs ==
    { Sc(<<"k">>, "Plain", 0, NoTag),
      Sc(<<"k">>, "Plain", 2, NoTag),
      Sc(<<"7">>, "Plain", 0, NoTag),
      Sc(<<"k">>, "Plain", 0, Tag(CoreHandle, "int")) }

Step(scalars, aids, aliases) ==
    \/ StreamStart
    \/ DocumentStart
    \/ DocumentEnd
    \/ StreamEnd
    \/ \E aid \in aids : Room(MaxNodes) /\ SequenceStart(aid)
    \/ SequenceEnd
    \/ \E aid \in aids : Room(MaxNodes) /\ MappingStart(aid)
    \/ MappingEnd
    \/ \E sc \in scalars : Room(MaxNodes) /\ Scalar(sc.v, sc.style, sc.aid, sc.tag)
    \/ \E id \in aliases : Room(MaxNodes) /\ Alias(id)
    \/ ScanError
    \/ Return

Next == Step(ScalarInputs, {0}, {1})

Spec == Init /\ [][Next]_vars

(***************************************************************************)
(* The anchor specification.  The parser attaches anchor id 1 to scalars   *)
(* and containers (0 is "no anchor") and delivers aliases to id 1.         *)
(***************************************************************************)
AnchorScalarInputs ==
    { Sc(<<"k">>, "Plain", 0, NoTag),
      Sc(<<"k">>, "Plain", 1, NoTag) }

NextAnchors == Step(AnchorScalarInputs, {0, 1}, {1})

SpecAnchors == Init /\ [][NextAnchors]_vars

(***************************************************************************)
(* The scalar specification: single-document streams whose root is one     *)
(* scalar, drawn from every combination of a text, a style and a tag.      *)
(***************************************************************************)
ScalarTexts ==
    { <<>>, <<"a", "b", "c">>, <<"t", "r", "u", "e">>, <<"f", "a", "l", "s", "e">>,
      <<"1", "2">>, <<"-", "3">>, <<"+", "7">>, <<"1", ".", "5">>, <<"1", "e", "3">>,
      <<".", "i", "n", "f">>, <<"N", "a", "N">>, <<"~">>, <<"n", "u", "l", "l">> }

ScalarTags ==
    { NoTag, Tag(CoreHandle, "bool"), Tag(CoreHandle, "int"), Tag(CoreHandle, "float"),
      Tag(CoreHandle, "null"), Tag(CoreHandle, "str"), Tag("!", "int") }

NextScalar ==
    \/ StreamStart
    \/ DocumentStart /\ docs = <<>>
    \/ \E v \in ScalarTexts, style \in Styles, tag \in ScalarTags : Scalar(v, style, 0, tag)
    \/ DocumentEnd
    \/ StreamEnd
    \/ Return

SpecScalar == Init /\ [][NextScalar]_vars

(***************************************************************************)
(* The mapping specification: single-document streams whose root is a      *)
(* mapping.  Its children are scalars (two Strings, an Integer, and one    *)
(* whose explicit core-schema tag does not match its text), sequences, and *)
(* aliases to id 1, which no node carries.                                 *)
(***************************************************************************)
\* node events per stream of the mapping specification
MaxMapNodes == 5

MapScalarInputs ==
    { Sc(<<"k">>, "Plain", 0, NoTag),
      Sc(<<"j">>, "Plain", 0, NoTag),
      Sc(<<"7">>, "Plain", 0, NoTag),
      Sc(<<"k">>, "Plain", 0, Tag(CoreHandle, "int")) }

NextMapping ==
    \/ StreamStart
    \/ DocumentStart /\ docs = <<>>
    \/ DocumentEnd
    \/ StreamEnd
    \/ parser.open = <<>> /\ MappingStart(0)
    \/ MappingEnd
    \/ parser.open # <<>> /\ Room(MaxMapNodes) /\ SequenceStart(0)
    \/ SequenceEnd
    \/ \E sc \in MapScalarInputs :
          parser.open # <<>> /\ Room(MaxMapNodes) /\ Scalar(sc.v, sc.style, sc.aid, sc.tag)
    \/ parser.open # <<>> /\ Room(MaxMapNodes) /\ Alias(1)
    \/ Return

SpecMapping == Init /\ [][NextMapping]_vars

(***************************************************************************)
(* Reference construction, by recursive descent over the delivered events  *)
(* instead of the loader's stacks.  RefNode reads the node that starts at  *)
(* position p and returns it with the position after it and the anchor     *)
(* table after it.  RefDocs lists the roots of the completed documents.    *)
(***************************************************************************)
RefPut(entries, k, val) ==
    LET kept == {j \in 1..Len(entries) : entries[j].key # k}
        rank(j) == Cardinality({m \in kept : m <= j})
        rest == [n \in 1..Cardinality(kept) |->
                    entries[CHOOSE j \in kept : rank(j) = n]]
    IN  rest \o <<[key |-> k, val |-> val]>>

RefReg(am, node, aid) == IF aid = 0 THEN am ELSE [id \in DOMAIN am \cup {aid} |->
                                                    IF id = aid THEN node ELSE am[id]]

RefOut(node, next, am) == [node |-> node, next |-> next, am |-> am]

RECURSIVE RefNode(_, _, _), RefSeq(_, _, _, _), RefMap(_, _, _, _, _)
RefNode(evs, p, am) ==
    LET ev == evs[p]
    IN  CASE ev.e = "Scalar" ->
                 LET n == ResolveScalar(ev.v, ev.style, ev.tag)
                 IN  RefOut(n, p + 1, RefReg(am, n, ev.aid))
          [] ev.e = "Alias" ->
                 RefOut(IF ev.aid \in DOMAIN am THEN am[ev.aid] ELSE BadValue, p + 1, am)
          [] ev.e = "SequenceStart" ->
                 LET r == RefSeq(evs, p + 1, am, <<>>)
                 IN  RefOut(r.node, r.next, RefReg(r.am, r.node, ev.aid))
          [] ev.e = "MappingStart" ->
                 LET r == RefMap(evs, p + 1, am, <<>>, BadValue)
                 IN  RefOut(r.node, r.next, RefReg(r.am, r.node, ev.aid))

RefSeq(evs, p, am, acc) ==
    IF evs[p].e = "SequenceEnd" THEN RefOut(Array(acc), p + 1, am)
    ELSE LET r == RefNode(evs, p, am)
         IN  RefSeq(evs, r.next, r.am, Append(acc, r.node))

\* `key` is the pending key, BadValue when the mapping awaits a key
RefMap(evs, p, am, acc, key) ==
    IF evs[p].e = "MappingEnd" THEN RefOut(Hash(acc), p + 1, am)
    ELSE LET r == RefNode(evs, p, am)
         IN  IF key = BadValue
             THEN RefMap(evs, r.next, r.am, acc, r.node)
             ELSE RefMap(evs, r.next, r.am, RefPut(acc, key, r.node), BadValue)

HasLater(tr, p, kind) == \E j \in (p + 1)..Len(tr) : tr[j].e = kind

RECURSIVE RefDocs(_, _, _, _)
RefDocs(tr, p, am, acc) ==
    IF p > Len(tr) THEN acc
    ELSE IF tr[p].e # "DocumentStart" THEN RefDocs(tr, p + 1, am, acc)
    ELSE IF ~HasLater(tr, p, "DocumentEnd") THEN acc
    ELSE IF tr[p + 1].e = "DocumentEnd" THEN RefDocs(tr, p + 2, am, Append(acc, BadValue))
    ELSE LET r == RefNode(tr, p + 1, am)
         IN  RefDocs(tr, r.next + 1, r.am, Append(acc, r.node))

\* C1: the document list holds one root per processed DocumentEnd, in
\* arrival order: its length is the number of DocumentEnd events delivered,
\* and its i-th element is the root built from the events of the i-th
\* document; so it changes on no event other than DocumentEnd.
C1_OneRootPerDocumentEnd ==
    /\ Len(docs) = CountOf(trace, {"DocumentEnd"})
    /\ docs = RefDocs(trace, 1, <<>>, <<>>)

\* a root scalar document followed by a one-element sequence document
C1_Witness ==
    /\ CountOf(trace, {"DocumentEnd"}) = 2
    /\ docs = <<String(<<"k">>), Array(<<String(<<"k">>)>>)>>

\* C2: load_from_parser returns a document list if and only if the whole
\* stream was consumed without error; when the parser reports a fatal error
\* the error is returned and no document list, whatever the loader had
\* already completed.
C2_NoPartialDocumentList ==
    /\ parser.phase = "failed" => result.kind = "Err"
    /\ result.kind = "Err" => parser.phase = "failed" /\ result.docs = <<>>
    /\ result.kind = "Ok" =>
          /\ parser.phase = "end"
          /\ result.docs = docs
          /\ Len(result.docs) = CountOf(trace, {"DocumentEnd"})

\* the error arrives after a document had been completed
C2_Witness == result.kind = "Err" /\ result.lost >= 1

EventKinds(tr) == [j \in 1..Len(tr) |-> tr[j].e]

\* C7: a document with no content events (DocumentStart immediately
\* followed by DocumentEnd) appends exactly one BadValue root and raises no
\* error; a stream that consists of only such a document yields the
\* one-element list <<BadValue>>.
C7_EmptyDocumentIsBadValue ==
    /\ result.kind # "Panic"
    /\ Len(docs) = CountOf(trace, {"DocumentEnd"})
    /\ \A j \in 1..(Len(trace) - 1) :
          trace[j].e = "DocumentStart" /\ trace[j + 1].e = "DocumentEnd" =>
              docs[CountOf(SubSeq(trace, 1, j + 1), {"DocumentEnd"})] = BadValue
    /\ (result.kind = "Ok" /\ EventKinds(trace) =
            <<"StreamStart", "DocumentStart", "DocumentEnd", "StreamEnd">>) =>
          result.docs = <<BadValue>>

C7_Witness ==
    /\ result.kind = "Ok"
    /\ EventKinds(trace) = <<"StreamStart", "DocumentStart", "DocumentEnd", "StreamEnd">>
    /\ result.docs = <<BadValue>>

(***************************************************************************)
(* Direct construction of a document whose nodes are sequences, mappings   *)
(* and scalars: the children of a sequence in order, the children of a     *)
(* mapping taken two at a time as key and value.                           *)
(***************************************************************************)
DirOut(node, next) == [node |-> node, next |-> next]

RECURSIVE DirNode(_, _), DirSeq(_, _, _), DirMap(_, _, _)
DirNode(evs, p) ==
    LET ev == evs[p]
    IN  CASE ev.e = "Scalar" -> DirOut(ResolveScalar(ev.v, ev.style, ev.tag), p + 1)
          [] ev.e = "Alias" -> DirOut(BadValue, p + 1)
          [] ev.e = "SequenceStart" -> DirSeq(evs, p + 1, <<>>)
          [] ev.e = "MappingStart" -> DirMap(evs, p + 1, <<>>)

DirSeq(evs, p, acc) ==
    IF evs[p].e = "SequenceEnd" THEN DirOut(Array(acc), p + 1)
    ELSE LET r == DirNode(evs, p)
         IN  DirSeq(evs, r.next, Append(acc, r.node))

DirMap(evs, p, acc) ==
    IF evs[p].e = "MappingEnd" THEN DirOut(Hash(acc), p + 1)
    ELSE LET k == DirNode(evs, p)
             v == DirNode(evs, k.next)
         IN  DirMap(evs, v.next, RefPut(acc, k.node, v.node))

\* the completed documents of a trace: document i runs from its
\* DocumentStart at position a to its DocumentEnd at position b
DocSpans(tr) ==
    { [i |-> CountOf(SubSeq(tr, 1, a), {"DocumentStart"}), a |-> a,
       b |-> CHOOSE b \in (a + 1)..Len(tr) :
                /\ tr[b].e = "DocumentEnd"
                /\ \A m \in (a + 1)..(b - 1) : tr[m].e # "DocumentEnd"] :
      a \in {j \in 1..Len(tr) : tr[j].e = "DocumentStart" /\ HasLater(tr, j, "DocumentEnd")} }

\* the document has content, made only of sequences, mappings and untagged
\* scalars, every anchor id 0 and no alias
PlainDoc(tr, d) ==
    /\ d.b > d.a + 1
    /\ \A m \in (d.a + 1)..(d.b - 1) :
          /\ tr[m].e \in {"SequenceStart", "SequenceEnd", "MappingStart",
                          "MappingEnd", "Scalar"}
          /\ tr[m].aid = 0
          /\ ~tr[m].tag.some

\* C3: for a document made only of sequences, mappings and untagged
\* scalars, with every anchor id 0 and no alias, the root appended at
\* DocumentEnd is the tree built directly by recursion over the same nested
\* structure (same array lengths, same hash keys, same nesting).
C3_MatchesDirectConstruction ==
    \A d \in DocSpans(trace) :
        PlainDoc(trace, d) =>
            /\ Len(docs) >= d.i
            /\ docs[d.i] = DirNode(trace, d.a + 1).node

\* a mapping whose value is a one-element sequence has been loaded
C3_Witness ==
    \E d \in DocSpans(trace) :
        /\ PlainDoc(trace, d)
        /\ docs[d.i] = Hash(<<[key |-> String(<<"k">>),
                               val |-> Array(<<Integer(7)>>)]>>)

(***************************************************************************)
(* Reading one step of the loader off the trace: the event a step          *)
(* delivers, the node that event hands to the insertion routine, and the   *)
(* stacks that routine finds (a closing event pops its own entries first). *)
(***************************************************************************)
Delivers == Len(trace') = Len(trace) + 1
Delivered == trace'[Len(trace')]

NodeDone(ev) == ev.e \in {"Scalar", "Alias", "SequenceEnd", "MappingEnd"}

Handed(ev) ==
    CASE ev.e = "Scalar" -> ResolveScalar(ev.v, ev.style, ev.tag)
      [] ev.e = "Alias" -> IF ev.aid \in DOMAIN anchor_map THEN anchor_map[ev.aid]
                           ELSE BadValue
      [] OTHER -> Top(doc_stack).node

ParentStack(ev) ==
    IF ev.e \in {"SequenceEnd", "MappingEnd"} THEN Pop(doc_stack) ELSE doc_stack

SlotStack(ev) == IF ev.e = "MappingEnd" THEN Pop(key_stack) ELSE key_stack

IntoHash(ev) ==
    /\ NodeDone(ev)
    /\ ParentStack(ev) # <<>>
    /\ is_hash(Top(ParentStack(ev)).node)

\* the documents made of MappingStart, Scalar k, Scalar v, MappingEnd with k
\* and v resolving to real nodes hold the one-entry Hash {k: v}
OnePairDocs ==
    \A d \in DocSpans(trace) :
        LET k == trace[d.a + 2]
            v == trace[d.a + 3]
        IN  (/\ d.b = d.a + 5
             /\ EventKinds(SubSeq(trace, d.a + 1, d.b - 1)) =
                   <<"MappingStart", "Scalar", "Scalar", "MappingEnd">>
             /\ ~is_badvalue(ResolveScalar(k.v, k.style, k.tag))
             /\ ~is_badvalue(ResolveScalar(v.v, v.style, v.tag)))
            => docs[d.i] = Hash(<<[key |-> ResolveScalar(k.v, k.style, k.tag),
                                   val |-> ResolveScalar(v.v, v.style, v.tag)]>>)

\* C4: inside an open mapping the children alternate between key and value.
\* A node that arrives while the top key_stack slot holds the BadValue
\* placeholder is stored in the slot and the Hash is unchanged; a node that
\* arrives while the slot holds a pending key is inserted into the Hash
\* under that key and the slot is reset to BadValue.  So MappingStart,
\* Scalar k, Scalar v, MappingEnd builds the one-entry Hash {k: v}.
C4_KeyValueAlternation ==
    [][/\ (Delivers /\ IntoHash(Delivered)) =>
            LET n == Handed(Delivered)
                pds == ParentStack(Delivered)
                pks == SlotStack(Delivered)
            IN  IF is_badvalue(Top(pks))
                THEN /\ key_stack' = SetTop(pks, n)
                     /\ doc_stack' = pds
                ELSE /\ key_stack' = SetTop(pks, BadValue)
                     /\ Pop(doc_stack') = Pop(pds)
                     /\ Top(doc_stack') =
                           Entry(Hash(RefPut(Top(pds).node.c, Top(pks), n)), Top(pds).aid)
       /\ OnePairDocs']_vars

\* the document {k: 7} has been loaded
C4_Witness ==
    \E d \in DocSpans(trace) :
        /\ EventKinds(SubSeq(trace, d.a + 1, d.b - 1)) =
              <<"MappingStart", "Scalar", "Scalar", "MappingEnd">>
        /\ docs[d.i] = Hash(<<[key |-> String(<<"k">>), val |-> Integer(7)]>>)

\* where a node n handed to the insertion routine ends up, given the stacks
\* pds and pks the routine finds: as the root entry, as the last element of
\* the Array parent, in the key slot of the Hash parent, or as the value
\* inserted under the pending key
Landed(n, pds, pks) ==
    IF pds = <<>> THEN Len(doc_stack') = 1 /\ Top(doc_stack').node = n
    ELSE /\ Pop(doc_stack') = Pop(pds)
         /\ IF is_array(Top(pds).node)
            THEN Top(doc_stack').node = Array(Append(Top(pds).node.c, n))
            ELSE IF is_badvalue(Top(pks))
            THEN Top(key_stack') = n /\ Top(doc_stack') = Top(pds)
            ELSE Top(doc_stack').node = Hash(RefPut(Top(pds).node.c, Top(pks), n))

\* the anchor id under which the node completed by event ev closes
ClosingAid(ev) ==
    CASE ev.e = "Scalar" -> ev.aid
      [] ev.e = "Alias" -> 0
      [] OTHER -> Top(doc_stack).aid

\* C5: the anchor table holds, under each id > 0, the most recently closed
\* node with that id as it was at its close: an event that closes a node
\* with id > 0 stores that node, and every other event (an Alias, and every
\* later event that extends the container holding the copy) leaves the
\* table unchanged.  An Alias(id) to an id of the table inserts a value
\* equal to the table entry.
C5_AliasInsertsCopyOfAnchoredNode ==
    [][Delivers =>
         LET ev == Delivered
         IN  /\ IF NodeDone(ev) /\ ClosingAid(ev) > 0
                THEN anchor_map' = RefReg(anchor_map, Handed(ev), ClosingAid(ev))
                ELSE anchor_map' = anchor_map
             /\ (ev.e = "Alias" /\ ev.aid \in DOMAIN anchor_map) =>
                   Landed(anchor_map[ev.aid], doc_stack, key_stack)]_vars

\* a sequence holds an anchored container, its copy made by an alias, and a
\* scalar appended after the copy; the anchor table still holds the container
C5_Witness ==
    /\ Len(trace) >= 2
    /\ trace[Len(trace) - 1].e = "Alias"
    /\ trace[Len(trace)].e = "Scalar"
    /\ 1 \in DOMAIN anchor_map
    /\ anchor_map[1].t \in {"Array", "Hash"}
    /\ Len(doc_stack) = 1
    /\ Top(doc_stack).node =
          Array(<<anchor_map[1], anchor_map[1], String(<<"k">>)>>)

\* C6: an Alias(id) whose id has no entry in the anchor table is not an
\* error: BadValue is handed to the insertion routine with anchor id 0, so
\* the anchor table is unchanged (the alias is not registered) and no
\* handler fails; the enclosing document is still appended at DocumentEnd.
C6_DanglingAliasIsBadValue ==
    [][/\ (Delivers /\ Delivered.e = "Alias" /\ Delivered.aid \notin DOMAIN anchor_map) =>
             /\ anchor_map' = anchor_map
             /\ result' = result
             /\ result.kind = "Running"
             /\ Landed(BadValue, doc_stack, key_stack)
       /\ \A d \in DocSpans(trace') :
             (\E m \in d.a..d.b : trace'[m].e = "Alias") => Len(docs') >= d.i]_vars

\* a document [k, *1] with no anchor 1 has been loaded and returned while
\* the anchor table holds another anchor
C6_Witness ==
    /\ result.kind = "Ok"
    /\ result.docs = <<Array(<<String(<<"k">>), BadValue>>)>>
    /\ DOMAIN anchor_map = {2}

\* C8: a local anomaly (an Alias with no matching anchor, or a plain scalar
\* whose explicit core-schema tag does not match its text) degrades to a
\* BadValue at exactly the tree position where the node occurs, whether
\* document root, sequence element, mapping key or mapping value: every
\* loaded document is the tree built position by position from its events,
\* with BadValue where the anomaly stands.  (In the loader specification no
\* alias has a matching anchor.)
C8_AnomalyDegradesInPlace ==
    \A d \in DocSpans(trace) :
        d.b > d.a + 1 =>
            /\ Len(docs) >= d.i
            /\ docs[d.i] = DirNode(trace, d.a + 1).node

RECURSIVE NoBadKey(_)
NoBadKey(n) ==
    IF is_array(n) THEN \A j \in 1..Len(n.c) : NoBadKey(n.c[j])
    ELSE IF is_hash(n)
    THEN \A j \in 1..Len(n.c) :
            /\ ~is_badvalue(n.c[j].key)
            /\ NoBadKey(n.c[j].key)
            /\ NoBadKey(n.c[j].val)
    ELSE TRUE

\* C9: no Hash anywhere in docs, in doc_stack or in the anchor table (nor
\* in a pending key) has the BadValue placeholder as a key.
C9_NoBadValueKey ==
    /\ \A j \in 1..Len(docs) : NoBadKey(docs[j])
    /\ \A j \in 1..Len(doc_stack) : NoBadKey(doc_stack[j].node)
    /\ \A j \in 1..Len(key_stack) : NoBadKey(key_stack[j])
    /\ \A id \in DOMAIN anchor_map : NoBadKey(anchor_map[id])

\* an anchored mapping whose first child was a dangling alias has closed:
\* neither the root in docs nor the anchor-table entry has a BadValue key
C9_Witness ==
    /\ \E j \in 1..(Len(trace) - 1) :
          /\ trace[j].e = "MappingStart" /\ trace[j].aid = 1
          /\ trace[j + 1].e = "Alias"
    /\ Len(docs) = 1
    /\ is_hash(docs[1])
    /\ 1 \in DOMAIN anchor_map
    /\ anchor_map[1] = docs[1]

\* the root the loader holds: on doc_stack before DocumentEnd, in docs after
CurrentRoot == IF doc_stack # <<>> THEN Top(doc_stack).node ELSE docs[Len(docs)]

\* C10: a Scalar event whose style is not Plain resolves to String(text),
\* whatever the text and whatever the tag (a core-schema tag the text does
\* not match included); it never resolves to BadValue.
C10_NonPlainScalarIsString ==
    \A j \in 1..Len(trace) :
        (trace[j].e = "Scalar" /\ trace[j].style # "Plain") =>
            /\ CurrentRoot = String(trace[j].v)
            /\ ~is_badvalue(CurrentRoot)

\* a double-quoted "abc" tagged int has been loaded as the String "abc"
C10_Witness ==
    /\ \E j \in 1..Len(trace) :
          /\ trace[j].e = "Scalar"
          /\ trace[j].style = "DoubleQuoted"
          /\ trace[j].tag = Tag(CoreHandle, "int")
    /\ result.kind = "Ok"
    /\ result.docs = <<String(<<"a", "b", "c">>)>>

(***************************************************************************)
(* The rule table of explicitly tagged plain scalars, row by row.          *)
(***************************************************************************)
CoreSuffixes == {"bool", "int", "float", "null"}

ParsesAs(suffix, v) ==
    CASE suffix = "bool" -> ParseBool(v).ok
      [] suffix = "int" -> ParseI64(v).ok
      [] suffix = "float" -> parse_f64(v)
      [] suffix = "null" -> v = <<"~">> \/ v = <<"n", "u", "l", "l">>

TypedAs(suffix, v) ==
    CASE suffix = "bool" -> Boolean(ParseBool(v).val)
      [] suffix = "int" -> Integer(ParseI64(v).val)
      [] suffix = "float" -> Real(v)
      [] suffix = "null" -> Null

\* C11: a Plain scalar with an explicit tag follows the rule table: under
\* the core-schema handle, suffix bool/int/float/null gives Boolean/Integer/
\* Real(original text)/Null when the text parses under that type (null only
\* for `~` or `null`) and BadValue when it does not (int on "abc" gives
\* BadValue); any other suffix under the core handle, and any tag with
\* another handle, gives String(text).
C11_TaggedPlainScalarRuleTable ==
    \A j \in 1..Len(trace) :
        LET ev == trace[j]
        IN  /\ (ev.e = "Scalar" /\ ev.style = "Plain" /\ ev.tag.some) =>
                  IF ev.tag.handle = CoreHandle /\ ev.tag.suffix \in CoreSuffixes
                  THEN IF ParsesAs(ev.tag.suffix, ev.v)
                       THEN CurrentRoot = TypedAs(ev.tag.suffix, ev.v)
                       ELSE CurrentRoot = BadValue
                  ELSE CurrentRoot = String(ev.v)
            /\ (ev.e = "Scalar" /\ ev.style = "Plain" /\ ev.tag = Tag(CoreHandle, "int")
                  /\ ev.v = <<"a", "b", "c">>) => CurrentRoot = BadValue

\* a plain "12" tagged with a non-core handle and suffix int has been loaded
\* as the String "12"
C11_Witness ==
    /\ \E j \in 1..Len(trace) :
          /\ trace[j].e = "Scalar"
          /\ trace[j].style = "Plain"
          /\ trace[j].tag = Tag("!", "int")
    /\ result.kind = "Ok"
    /\ result.docs = <<String(<<"1", "2">>)>>

\* the mappings started and not yet ended in the delivered events
OpenMappings(tr) == CountOf(tr, {"MappingStart"}) - CountOf(tr, {"MappingEnd"})

\* C12: in every state the length of key_stack is the number of mappings
\* started (MappingStart) and not yet ended (MappingEnd) among the events
\* delivered so far, so MappingStart adds exactly one slot, MappingEnd
\* removes exactly one and no other event changes the length; the slot
\* MappingStart pushes holds BadValue.  A completed root Hash waiting on
\* doc_stack for DocumentEnd has no slot.
C12_OneSlotPerOpenMapping ==
    /\ Len(key_stack) = OpenMappings(trace)
    /\ (trace # <<>> /\ Top(trace).e = "MappingStart") => Top(key_stack) = BadValue
    /\ (parser.phase = "doc" /\ parser.root /\ parser.open = <<>>) =>
          key_stack = <<>>

\* the root mapping {k: {}} has closed and waits for DocumentEnd
C12_Witness ==
    /\ parser.phase = "doc" /\ parser.root
    /\ CountOf(trace, {"MappingStart"}) = 2
    /\ doc_stack = <<Entry(Hash(<<[key |-> String(<<"k">>), val |-> Hash(<<>>)]>>), 0)>>
    /\ key_stack = <<>>

\* C13: doc_stack holds 0 or 1 entries whenever a DocumentEnd is processed
\* (whenever the stream is at a point where DocumentEnd comes next), and
\* right after every DocumentEnd both doc_stack and key_stack are empty: no
\* open container or pending key carries over into the next document.
C13_StacksEmptyBetweenDocuments ==
    /\ result.kind # "Panic"
    /\ (Live /\ parser.phase = "doc" /\ parser.open = <<>>) =>
          /\ Len(doc_stack) \in {0, 1}
          /\ key_stack = <<>>
    /\ (trace # <<>> /\ Top(trace).e \in {"DocumentEnd", "DocumentStart"}) =>
          /\ doc_stack = <<>>
          /\ key_stack = <<>>

\* the document {k: 7} and then the document [] have been ended
C13_Witness ==
    /\ trace # <<>> /\ Top(trace).e = "DocumentEnd"
    /\ docs = <<Hash(<<[key |-> String(<<"k">>), val |-> Integer(7)]>>), Array(<<>>)>>
    /\ doc_stack = <<>>
    /\ key_stack = <<>>

\* the root of the current document is complete and waits for DocumentEnd
RootWaiting == Live /\ parser.phase = "doc" /\ parser.open = <<>> /\ parser.root

\* the anchor id the root of the current document closes with: the id of the
\* event that starts it, and 0 for an Alias
RootAid(tr) ==
    LET p == CHOOSE j \in 1..Len(tr) :
                 /\ tr[j].e = "DocumentStart"
                 /\ \A m \in (j + 1)..Len(tr) : tr[m].e # "DocumentStart"
    IN  IF tr[p + 1].e = "Alias" THEN 0 ELSE tr[p + 1].aid

\* C14 as stated: a node received while doc_stack is empty is pushed back
\* paired with anchor id 0, whatever id it carried, so the single doc_stack
\* entry waiting for DocumentEnd always has anchor id 0.
C14_RootEntryHasAidZero ==
    RootWaiting => Len(doc_stack) = 1 /\ Top(doc_stack).aid = 0

\* C14 amended: a node received while doc_stack is empty is pushed back
\* paired with the anchor id it carried, so the single doc_stack entry
\* waiting for DocumentEnd has the id the root closed with (0 for an
\* unanchored root or an alias).
C14_RootEntryKeepsItsAid ==
    RootWaiting => Len(doc_stack) = 1 /\ Top(doc_stack).aid = RootAid(trace)

\* the root sequence [k] anchored with id 1 has closed and waits
C14_Witness ==
    /\ RootWaiting
    /\ doc_stack = <<Entry(Array(<<String(<<"k">>)>>), 1)>>

\* C15: anchor-table entries live for the remainder of the load: no event
\* removes a key (the key set only grows, and an entry changes only when a
\* node closes with the same id > 0), key 0 is never present, DocumentEnd
\* leaves the table unchanged, and so an Alias that is the root of a later
\* document resolves to the node anchored in an earlier document.
C15_AnchorsLiveForTheLoad ==
    [][Delivers =>
         LET ev == Delivered
         IN  /\ DOMAIN anchor_map \subseteq DOMAIN anchor_map'
             /\ 0 \notin DOMAIN anchor_map'
             /\ \A id \in DOMAIN anchor_map :
                   anchor_map'[id] # anchor_map[id] =>
                       /\ NodeDone(ev)
                       /\ ClosingAid(ev) = id
                       /\ id > 0
             /\ ev.e = "DocumentEnd" => anchor_map' = anchor_map
             /\ (ev.e = "Alias" /\ doc_stack = <<>> /\ ev.aid \in DOMAIN anchor_map) =>
                   doc_stack' = <<Entry(anchor_map[ev.aid], 0)>>]_vars

\* the second document is an alias to the sequence the first document
\* anchored, and both documents have been ended
C15_Witness ==
    /\ Len(trace) >= 3
    /\ Top(trace).e = "DocumentEnd"
    /\ trace[Len(trace) - 1].e = "Alias"
    /\ trace[Len(trace) - 2].e = "DocumentStart"
    /\ DOMAIN anchor_map = {1}
    /\ docs = <<Array(<<String(<<"k">>)>>), anchor_map[1]>>
    /\ docs[2] = docs[1]

Min(a, b) == IF a <= b THEN a ELSE b

\* st and st2 agree on every entry below the lower of their two tops
SameBelowTop(st, st2) ==
    \A j \in 1..(Min(Len(st), Len(st2)) - 1) : st2[j] = st[j]

IsPrefix(a, b) == Len(a) <= Len(b) /\ SubSeq(b, 1, Len(a)) = a

\* C16: every event mutates at most the innermost open node: it leaves
\* every doc_stack entry below the top entry unchanged, every key_stack slot
\* below the top slot unchanged and every root already in docs unchanged;
\* and the children already handed to the node it does mutate stay as they
\* were (an Array keeps its elements, a Hash keeps its entries, but for the
\* entry whose key is inserted again).
C16_OnlyInnermostNodeMutated ==
    [][Delivers =>
         LET ev == Delivered
         IN  /\ SameBelowTop(doc_stack, doc_stack')
             /\ SameBelowTop(key_stack, key_stack')
             /\ IsPrefix(docs, docs')
             /\ (NodeDone(ev) /\ ParentStack(ev) # <<>>) =>
                   LET old == Top(ParentStack(ev)).node
                       new == Top(doc_stack').node
                   IN  /\ Len(doc_stack') = Len(ParentStack(ev))
                       /\ new.t = old.t
                       /\ is_array(old) => IsPrefix(old.c, new.c)
                       /\ is_hash(old) =>
                             IsPrefix(SelectSeq(old.c,
                                          LAMBDA en : en.key # Top(SlotStack(ev))),
                                      new.c)
             /\ ev.e \in {"SequenceStart", "MappingStart"} =>
                   Pop(doc_stack') = doc_stack]_vars

\* with a document already in docs, a scalar has been appended to a sequence
\* that is open inside an open mapping
C16_Witness ==
    /\ docs = <<String(<<"k">>)>>
    /\ doc_stack = <<Entry(Hash(<<>>), 0), Entry(Array(<<Integer(7)>>), 0)>>
    /\ key_stack = <<BadValue>>
    /\ Top(trace).e = "Scalar"

\* the children of the mapping whose first child is at position p, in
\* order, up to its MappingEnd or to the end of the events
RECURSIVE Children(_, _, _)
Children(evs, p, acc) ==
    IF p > Len(evs) \/ evs[p].e = "MappingEnd" THEN acc
    ELSE LET r == DirNode(evs, p)
         IN  Children(evs, r.next, Append(acc, r.node))

\* the completed documents whose root is a mapping
MappingDocs(tr) == {d \in DocSpans(tr) : tr[d.a + 1].e = "MappingStart"}

\* the children come in pairs and no key of a pair is BadValue
GoodKeys(ch) == \A j \in 1..(Len(ch) \div 2) : ~is_badvalue(ch[2 * j - 1])

PairKeys(ch) == {ch[2 * j - 1] : j \in 1..(Len(ch) \div 2)}

\* the value of the last pair of ch whose key is k
LastValue(ch, k) ==
    LET js == {j \in 1..(Len(ch) \div 2) : ch[2 * j - 1] = k}
    IN  ch[2 * (CHOOSE j \in js : \A m \in js : m <= j)]

\* C17: when a mapping receives key/value pairs whose keys are structurally
\* equal (non-BadValue) nodes, the closed Hash has a single entry for that
\* key and its value is the value of the later pair (last write wins); the
\* closed Hash has as many entries as structurally distinct keys inserted.
C17_LastWriteWins ==
    \A d \in MappingDocs(trace) :
        LET ch == Children(trace, d.a + 2, <<>>)
            h == docs[d.i]
        IN  GoodKeys(ch) =>
                /\ is_hash(h)
                /\ Len(h.c) = Cardinality(PairKeys(ch))
                /\ \A k \in PairKeys(ch) :
                      /\ Cardinality({j \in 1..Len(h.c) : h.c[j].key = k}) = 1
                      /\ \A j \in 1..Len(h.c) :
                            h.c[j].key = k => h.c[j].val = LastValue(ch, k)

\* the mapping {[]: k, []: 7} has been loaded as the one-entry Hash {[]: 7}
C17_Witness ==
    \E d \in MappingDocs(trace) :
        /\ Children(trace, d.a + 2, <<>>) =
              <<Array(<<>>), String(<<"k">>), Array(<<>>), Integer(7)>>
        /\ docs[d.i] = Hash(<<[key |-> Array(<<>>), val |-> Integer(7)]>>)

\* C18: on a well-formed event stream no panicking path of the loader is
\* reachable.  The open containers of the stream and doc_stack correspond
\* entry by entry (an Array for an open sequence, a Hash for an open
\* mapping), so SequenceEnd and MappingEnd find the container pushed by the
\* matching start event and every node inserted while doc_stack is
\* non-empty finds an Array or Hash parent (no node is silently dropped);
\* key_stack has a slot whenever a Hash is open; and DocumentEnd finds at
\* most one doc_stack entry.
C18_NoPanicOnWellFormedStream ==
    /\ result.kind # "Panic"
    /\ parser.phase = "doc" =>
          /\ Len(doc_stack) =
                Len(parser.open) + (IF parser.open = <<>> /\ parser.root THEN 1 ELSE 0)
          /\ \A j \in 1..Len(parser.open) :
                IF parser.open[j] = "seq" THEN is_array(doc_stack[j].node)
                ELSE is_hash(doc_stack[j].node)
          /\ Len(key_stack) =
                Cardinality({j \in 1..Len(parser.open) : parser.open[j] # "seq"})
          /\ parser.open = <<>> => Len(doc_stack) <= 1
    /\ parser.phase # "doc" => doc_stack = <<>> /\ key_stack = <<>>

\* the stream of the document {k: [7]} has been loaded to its end
C18_Witness ==
    /\ result.kind = "Ok"
    /\ CountOf(trace, {"SequenceEnd"}) = 1
    /\ CountOf(trace, {"MappingEnd"}) = 1
    /\ result.docs = <<Hash(<<[key |-> String(<<"k">>),
                              val |-> Array(<<Integer(7)>>)]>>)>>

(***************************************************************************)
(* What a mapping makes of its children when a BadValue child in key       *)
(* position is not recorded: `key` is the pending key (BadValue for none), *)
(* `acc` the entries so far, `kept` the number of children not dropped.    *)
(***************************************************************************)
Walked(acc, key, kept) == [acc |-> acc, key |-> key, kept |-> kept]

RECURSIVE Walk(_, _, _)
Walk(ch, j, w) ==
    IF j > Len(ch) THEN w
    ELSE IF is_badvalue(w.key)
    THEN IF is_badvalue(ch[j]) THEN Walk(ch, j + 1, w)
         ELSE Walk(ch, j + 1, Walked(w.acc, ch[j], w.kept + 1))
    ELSE Walk(ch, j + 1, Walked(RefPut(w.acc, w.key, ch[j]), BadValue, w.kept + 1))

WalkAll(ch) == Walk(ch, 1, Walked(<<>>, BadValue, 0))

\* the root mapping is open and so is none of its children
RootMappingOpen ==
    /\ Live /\ parser.phase = "doc"
    /\ Len(parser.open) = 1 /\ Top(parser.open) # "seq"

DocStart(tr) ==
    CHOOSE j \in 1..Len(tr) :
        tr[j].e = "DocumentStart" /\ \A m \in (j + 1)..Len(tr) : tr[m].e # "DocumentStart"

\* C19: a node that arrives in key position of an open mapping and is
\* BadValue (a dangling alias, a plain scalar with a mismatched core-schema
\* tag) is not recorded: the key slot still reads as awaiting a key, so the
\* next node becomes the pending key and the roles of the following
\* children are shifted by one; a pending key still in the slot at
\* MappingEnd is discarded.  The closed Hash has at most floor(m/2) entries,
\* m the number of children not dropped, and never a BadValue key.
C19_BadValueKeyShiftsRoles ==
    /\ RootMappingOpen =>
          LET w == WalkAll(Children(trace, DocStart(trace) + 2, <<>>))
          IN  /\ Top(key_stack) = w.key
              /\ Top(doc_stack).node = Hash(w.acc)
    /\ \A d \in MappingDocs(trace) :
          LET w == WalkAll(Children(trace, d.a + 2, <<>>))
              h == docs[d.i]
          IN  /\ h = Hash(w.acc)
              /\ 2 * Len(h.c) <= w.kept
              /\ \A j \in 1..Len(h.c) : ~is_badvalue(h.c[j].key)

\* the mapping with children *1 (dangling), k, j, 7 has been loaded as the
\* Hash {k: j}: the alias was dropped and the pending key 7 discarded
C19_Witness ==
    \E d \in MappingDocs(trace) :
        /\ trace[d.a + 2].e = "Alias"
        /\ Children(trace, d.a + 2, <<>>) =
              <<BadValue, String(<<"k">>), String(<<"j">>), Integer(7)>>
        /\ docs[d.i] = Hash(<<[key |-> String(<<"k">>), val |-> String(<<"j">>)]>>)

(***************************************************************************)
(* Reading the anchors off the delivered events: `open` lists the anchor   *)
(* ids of the containers started and not yet ended, innermost last;        *)
(* `closed` maps each id > 0 some node has closed with to the position of  *)
(* the last event that closed a node with that id.                         *)
(***************************************************************************)
Scanned(open, closed) == [open |-> open, closed |-> closed]

Closes(closed, aid, j) ==
    IF aid > 0
    THEN [id \in DOMAIN closed \cup {aid} |-> IF id = aid THEN j ELSE closed[id]]
    ELSE closed

RECURSIVE ScanFrom(_, _, _)
ScanFrom(tr, j, sc) ==
    IF j > Len(tr) THEN sc
    ELSE CASE tr[j].e = "Scalar" ->
                  ScanFrom(tr, j + 1, Scanned(sc.open, Closes(sc.closed, tr[j].aid, j)))
           [] tr[j].e \in {"SequenceStart", "MappingStart"} ->
                  ScanFrom(tr, j + 1, Scanned(Append(sc.open, tr[j].aid), sc.closed))
           [] tr[j].e \in {"SequenceEnd", "MappingEnd"} ->
                  ScanFrom(tr, j + 1,
                           Scanned(Pop(sc.open), Closes(sc.closed, Top(sc.open), j)))
           [] OTHER -> ScanFrom(tr, j + 1, sc)

Scan(tr) == ScanFrom(tr, 1, Scanned(<<>>, <<>>))

InOwnSubtree(sc, id) == \E j \in 1..Len(sc.open) : sc.open[j] = id

\* C20: the anchor of a container is registered when its SequenceEnd or
\* MappingEnd is processed, never at its start event: the anchor table
\* holds exactly the ids some node has closed with.  An Alias(id) processed
\* between the start and the end of the container carrying id resolves to
\* BadValue when no earlier node closed with that id, or to the earlier
\* closed node with that id, never to the open container: the table entry
\* it read is left as it was.
C20_ContainerAnchoredAtItsEnd ==
    [][Delivers =>
         LET ev == Delivered
             sc == Scan(trace)
         IN  /\ ev.e \in {"SequenceStart", "MappingStart"} => anchor_map' = anchor_map
             /\ DOMAIN anchor_map' = DOMAIN Scan(trace').closed
             /\ (ev.e = "Alias" /\ InOwnSubtree(sc, ev.aid)) =>
                   IF ev.aid \in DOMAIN sc.closed
                   THEN /\ Landed(anchor_map[ev.aid], doc_stack, key_stack)
                        /\ anchor_map'[ev.aid] = anchor_map[ev.aid]
                        /\ trace[sc.closed[ev.aid]].e = "Scalar" =>
                              LET e0 == trace[sc.closed[ev.aid]]
                              IN  anchor_map[ev.aid] = ResolveScalar(e0.v, e0.style, e0.tag)
                   ELSE /\ Landed(BadValue, doc_stack, key_stack)
                        /\ ev.aid \notin DOMAIN anchor_map']_vars

\* after the document &1 k, the document &1 [*1] has been loaded as [k]: the
\* alias read the scalar, and the table now holds the closed sequence
C20_Witness ==
    /\ Len(trace) >= 5
    /\ EventKinds(SubSeq(trace, Len(trace) - 4, Len(trace))) =
          <<"DocumentStart", "SequenceStart", "Alias", "SequenceEnd", "DocumentEnd">>
    /\ trace[Len(trace) - 3].aid = 1
    /\ docs = <<String(<<"k">>), Array(<<String(<<"k">>)>>)>>
    /\ anchor_map[1] = docs[2]

====
